---- MODULE Spec2Model ----
(***************************************************************************)
(* Monitor checking and notification engine of uptime-monitor:             *)
(* services/monitorService.js (MonitorService) and the POST /api/monitors  *)
(* handler that triggers the on-creation check.                            *)
(*                                                                         *)
(* One step of a task is one completed await: the awaited store, prober or *)
(* notifier operation takes effect and the continuation runs up to the     *)
(* next await, as on the single event loop of the host.                    *)
(* Time is counted in seconds (the resolution of CURRENT_TIMESTAMP).       *)
(***************************************************************************)
EXTENDS Integers, Sequences, FiniteSets, TLC

\* ---------------------------------------------------------------- bounds
MaxMonitors == 2
MaxTasks == 3
MaxInFlight == 2
MaxStoreErrors == 1
MaxTime == 1

\* ------------------------------------------------------- program constants
SleepMs == 1000
TimeoutMs == 30000
DefaultIntervalMs == 300000

MonitorIds == 1..MaxMonitors
FetchOutcomes == {"ok", "notok", "error", "abort"}
NotifierOutcomes == {"success", "failure", "raise"}
\* local time of the host minus UTC, in seconds
TzOffsets == {0, 3600}

NULL == <<>>
NoRow == [exists |-> FALSE]

VARIABLES
    isRunning,           \* this.isRunning
    monitoringInterval,  \* this.monitoringInterval: 0 (null) or the timer handle
    timers,              \* the repeating timers armed in the host's event loop
    monitors,            \* table monitors: id -> row
    history,             \* table monitor_status_history, per monitor, in insertion order
    notificationLog,     \* table notification_log, per monitor, in insertion order
    sent,                \* calls made to the notifier delegate, per monitor
    observed,            \* the classifications the prober has returned, per monitor
    tasks,               \* the async activities: sweeps and on-creation checks
    now,                 \* wall clock, seconds (UTC)
    storeErrors,         \* store operations that have failed so far
    env,                 \* process.env.MONITORING_INTERVAL: NULL (not set) or a text of digits
    checkIntervalMs,     \* this.checkIntervalMs
    delayOf,             \* the delay each armed timer was given, by handle
    swept,               \* per monitor, the sweeps whose loaded list held it
    call,                \* the call of a routine under study: its input and result
    requests             \* the requests to the monitor routes: each handler's position

vars == <<isRunning, monitoringInterval, timers, monitors, history,
          notificationLog, sent, observed, tasks, now, storeErrors,
          env, checkIntervalMs, delayOf, swept, call, requests>>

sched == <<isRunning, monitoringInterval, timers>>

\* ------------------------------------------------------------ pure helpers

\* the final responses of a request, by status code; response.ok is 2xx
StatusCodes == {200, 204, 299, 304, 404, 500}

\* what the single await fetch(...) of checkUrl comes to: a final response, a
\* network error raised by node-fetch, or the abort by the 30 s timer
Fetched ==
    [kind : {"response"}, status : StatusCodes]
    \cup [kind : {"throw"}, name : {"FetchError"}, message : {"ECONNREFUSED", "ENOTFOUND"}]
    \cup [kind : {"throw"}, name : {"AbortError"}, message : {"The user aborted a request."}]

\* one outcome of fetch for each class of outcomes
fetch(outcome) ==
    CASE outcome = "ok"    -> [kind |-> "response", status |-> 200]
      [] outcome = "notok" -> [kind |-> "response", status |-> 500]
      [] outcome = "abort" -> [kind |-> "throw", name |-> "AbortError",
                               message |-> "The user aborted a request."]
      [] OTHER             -> [kind |-> "throw", name |-> "FetchError",
                               message |-> "ECONNREFUSED"]

\* the URL requested: https:// is put before a URL without a protocol
WithProtocol(url) ==
    IF url[1] \notin {"http://", "https://"} THEN <<"https://">> \o url ELSE url

\* the try block of checkUrl: it returns the result for a response, or the
\* error of fetch leaves it
checkUrlTry(url, fetched, responseTime) ==
    IF fetched.kind = "response"
    THEN [completion |-> "return", requested |-> WithProtocol(url),
          status |-> IF fetched.status \in 200..299 THEN "up" ELSE "down",
          responseTime |-> responseTime,
          statusCode |-> fetched.status,
          error |-> IF fetched.status \in 200..299 THEN NULL ELSE <<"HTTP", fetched.status>>]
    ELSE [completion |-> "throw", requested |-> WithProtocol(url),
          name |-> fetched.name, message |-> fetched.message]

\* checkUrl without its catch block
checkUrlNoCatch(url, fetched, responseTime) ==
    checkUrlTry(url, fetched, responseTime)

\* checkUrl: the try block, and the catch block that turns an error into a result
checkUrl(url, fetched, responseTime) ==
    LET attempt == checkUrlTry(url, fetched, responseTime)
    IN  IF attempt.completion = "return"
        THEN attempt
        ELSE [completion |-> "return", requested |-> attempt.requested,
              status |-> "down",
              responseTime |-> responseTime,
              error |-> IF attempt.name = "AbortError"
                        THEN <<"Timeout">> ELSE <<attempt.message>>]

Plural(n) == IF n # 1 THEN "s" ELSE ""

\* formatDuration: the text as the sequence of its words
formatDuration(milliseconds) ==
    LET seconds == milliseconds \div 1000
        minutes == seconds \div 60
        hours   == minutes \div 60
        days    == hours \div 24
    IN  IF days > 0
        THEN <<days, "day" \o Plural(days), hours % 24, "hour" \o Plural(hours % 24)>>
        ELSE IF hours > 0
        THEN <<hours, "hour" \o Plural(hours), minutes % 60, "minute" \o Plural(minutes % 60)>>
        ELSE IF minutes > 0
        THEN <<minutes, "minute" \o Plural(minutes), seconds % 60, "second" \o Plural(seconds % 60)>>
        ELSE <<seconds, "second" \o Plural(seconds)>>

\* new Date(text of a stored timestamp): the stored text is UTC, without a zone
\* designator, and is read as local time (tz: local time minus UTC, in seconds,
\* at that moment); the result in ms since the epoch
ParseDate(stamp, tz) == (stamp - tz) * 1000

\* new Date(): ms since the epoch
DateNow == now * 1000

Max(S) == CHOOSE x \in S : \A y \in S : y <= x

\* SELECT checked_at ... WHERE status = 'down' ORDER BY checked_at DESC LIMIT 1
lastDownEvent(m) ==
    LET downs == {history[m][i].checked_at : i \in {j \in DOMAIN history[m] : history[m][j].status = "down"}}
    IN  IF downs = {} THEN NULL ELSE <<Max(downs)>>

\* SELECT m.*, u.email ... : the rows as the sweep sees them
Snapshot(id) == [id |-> id,
                 status |-> monitors[id].status,
                 notifications_enabled |-> monitors[id].notifications_enabled,
                 last_notification_sent |-> monitors[id].last_notification_sent]

RECURSIVE SeqOfSet(_)
SeqOfSet(S) == IF S = {} THEN <<>>
               ELSE LET x == CHOOSE y \in S : \A z \in S : y <= z
                    IN  <<x>> \o SeqOfSet(S \ {x})

AllMonitors == LET ids == {id \in MonitorIds : monitors[id].exists}
               IN  [i \in 1..Cardinality(ids) |-> Snapshot(SeqOfSet(ids)[i])]

\* setInterval: a handle not in use
NewHandle == CHOOSE h \in 1..(Cardinality(timers) + 1) : h \notin timers

\* ------------------------------------------------------------------ tasks

NewTask(kind, list, pc) ==
    [kind |-> kind, monitors |-> list, i |-> 1, pc |-> pc,
     status |-> "down", success |-> FALSE, downDuration |-> NULL,
     since |-> 0, calls |-> <<>>, logged |-> 0, faulted |-> FALSE,
     unchecked |-> 0, err |-> "none"]

InFlight == {t \in DOMAIN tasks : tasks[t].pc # "done"}

\* a further sweep or on-creation check fits the bounds of the model
Room ==
    /\ Cardinality(InFlight) < MaxInFlight
    /\ Len(tasks) < MaxTasks

Cur(t) == tasks[t].monitors[tasks[t].i]

\* who receives a rejection of the task's promise: the try/catch of
\* checkAllMonitors for a sweep, the .catch of the POST handler for an
\* on-creation check
\* checkAllMonitors without its try/catch
OnRejectNoTry(kind) == IF kind = "sweep" THEN "unhandled" ELSE "caught"

OnReject(kind) == "caught"

\* the task's promise rejects (its current check, or the load of the list,
\* raised): nothing of the task runs any more; kept are the receiver of the
\* rejection and the number of monitors of the list it never came to
Rejected(t) == [NewTask(tasks[t].kind, <<>>, "done") EXCEPT
                   !.err = OnReject(tasks[t].kind),
                   !.unchecked = IF tasks[t].pc = "all" THEN 0
                                 ELSE Len(tasks[t].monitors) - tasks[t].i]

\* the task has run to its end: nothing of it is kept
Finished(t) == NewTask(tasks[t].kind, <<>>, "done")

\* parseInt(text, 10) of a text of decimal digits
RECURSIVE parseInt(_)
parseInt(digits) ==
    IF digits = <<>> THEN 0
    ELSE parseInt(SubSeq(digits, 1, Len(digits) - 1)) * 10 + digits[Len(digits)]

\* the values of MONITORING_INTERVAL in the environment: unset, or a number of ms
MonitoringIntervalValues == {NULL, <<6, 0, 0, 0, 0>>}

\* the constructor: the state of the service for a value of MONITORING_INTERVAL
Construct(value) ==
    /\ env = value
    /\ checkIntervalMs = IF value # NULL THEN parseInt(value) ELSE DefaultIntervalMs
    /\ delayOf = <<>>
    /\ swept = [id \in MonitorIds |-> 0]
    /\ call = NULL
    /\ requests = <<>>
    /\ isRunning = FALSE
    /\ monitoringInterval = 0
    /\ timers = {}
    /\ monitors = [id \in MonitorIds |-> NoRow]
    /\ history = [id \in MonitorIds |-> <<>>]
    /\ notificationLog = [id \in MonitorIds |-> <<>>]
    /\ sent = [id \in MonitorIds |-> <<>>]
    /\ observed = [id \in MonitorIds |-> {}]
    /\ tasks = <<>>
    /\ now = 0
    /\ storeErrors = 0

\* MONITORING_INTERVAL is not set
Init == Construct(NULL)

\* MONITORING_INTERVAL is set or not
InitEnv == \E value \in MonitoringIntervalValues : Construct(value)

\* ---------------------------------------------------------------- scheduler

\* startMonitoring without its isRunning test
\* setInterval(callback, ms): the timer armed, with the delay it was given
SetInterval(ms) ==
    /\ monitoringInterval' = NewHandle
    /\ timers' = timers \cup {NewHandle}
    /\ delayOf' = [h \in timers \cup {NewHandle} |-> IF h = NewHandle THEN ms ELSE delayOf[h]]

\* startMonitoring without the initial call of checkAllMonitors
startMonitoringTimerOnly ==
    IF isRunning
    THEN UNCHANGED vars
    ELSE /\ isRunning' = TRUE
         /\ SetInterval(checkIntervalMs)
         /\ UNCHANGED <<monitors, history, notificationLog, sent, observed, tasks, now,
                        storeErrors, env, checkIntervalMs, swept, call, requests>>

\* startMonitoring without its isRunning test
startMonitoringUnguarded ==
    /\ Room
    /\ isRunning' = TRUE
    /\ tasks' = Append(tasks, NewTask("sweep", <<>>, "all"))
    /\ SetInterval(checkIntervalMs)
    /\ UNCHANGED <<monitors, history, notificationLog, sent, observed, now, storeErrors,
                   env, checkIntervalMs, swept, call, requests>>

startMonitoring ==
    IF isRunning
    THEN UNCHANGED vars
    ELSE /\ Room
         /\ isRunning' = TRUE
         /\ tasks' = Append(tasks, NewTask("sweep", <<>>, "all"))
         /\ SetInterval(checkIntervalMs)
         /\ UNCHANGED <<monitors, history, notificationLog, sent, observed, now, storeErrors,
                        env, checkIntervalMs, swept, call, requests>>

stopMonitoring ==
    /\ IF monitoringInterval # 0
       THEN /\ timers' = timers \ {monitoringInterval}
            /\ delayOf' = [h \in timers \ {monitoringInterval} |-> delayOf[h]]
            /\ monitoringInterval' = 0
       ELSE UNCHANGED <<timers, monitoringInterval, delayOf>>
    /\ isRunning' = FALSE
    /\ UNCHANGED <<monitors, history, notificationLog, sent, observed, tasks, now, storeErrors,
                   env, checkIntervalMs, swept, call, requests>>

\* the repeating timer fires: the callback calls checkAllMonitors
TimerFire ==
    /\ timers # {}
    /\ Room
    /\ tasks' = Append(tasks, NewTask("sweep", <<>>, "all"))
    /\ UNCHANGED <<sched, monitors, history, notificationLog, sent, observed, now, storeErrors,
                   env, checkIntervalMs, delayOf, swept, call, requests>>

Tick ==
    /\ now < MaxTime
    /\ now' = now + 1
    /\ UNCHANGED <<sched, monitors, history, notificationLog, sent, observed, tasks, storeErrors,
                   env, checkIntervalMs, delayOf, swept, call, requests>>

\* POST /api/monitors without the call of checkMonitor
CreateMonitorOnly(id, enabled) ==
    /\ Room
    /\ monitors[id] = NoRow
    /\ \A j \in MonitorIds : j < id => monitors[j] # NoRow
    /\ monitors' = [monitors EXCEPT ![id] =
                        [exists |-> TRUE, status |-> "pending",
                         notifications_enabled |-> enabled,
                         last_notification_sent |-> NULL]]
    /\ UNCHANGED <<sched, history, notificationLog, sent, observed, tasks, now, storeErrors,
                   env, checkIntervalMs, delayOf, swept, call, requests>>

\* POST /api/monitors: insert the row, read it back, start its check
CreateMonitor(id, enabled) ==
    /\ Room
    /\ monitors[id] = NoRow
    /\ \A j \in MonitorIds : j < id => monitors[j] # NoRow
    /\ LET row == [exists |-> TRUE, status |-> "pending",
                   notifications_enabled |-> enabled,
                   last_notification_sent |-> NULL]
       IN  /\ monitors' = [monitors EXCEPT ![id] = row]
           /\ tasks' = Append(tasks,
                  NewTask("create",
                          <<[id |-> id, status |-> row.status,
                             notifications_enabled |-> row.notifications_enabled,
                             last_notification_sent |-> row.last_notification_sent]>>,
                          "checkUrl"))
    /\ UNCHANGED <<sched, history, notificationLog, sent, observed, now, storeErrors,
                   env, checkIntervalMs, delayOf, swept, call, requests>>

\* ------------------------------------------------------------ store faults

\* the awaited store operation rejects
StoreFails ==
    /\ storeErrors < MaxStoreErrors
    /\ storeErrors' = storeErrors + 1

SetTask(t, rec) == tasks' = [tasks EXCEPT ![t] = rec]

\* -------------------------------------------------------- checkAllMonitors

\* const monitors = await this.db.all(...)
LoadMonitors(t) ==
    /\ tasks[t].pc = "all"
    /\ \/ /\ SetTask(t, IF AllMonitors = <<>>
                        THEN Finished(t)
                        ELSE [tasks[t] EXCEPT !.monitors = AllMonitors, !.i = 1, !.pc = "checkUrl"])
          /\ swept' = [id \in MonitorIds |-> IF monitors[id].exists THEN swept[id] + 1 ELSE swept[id]]
          /\ UNCHANGED storeErrors
       \/ /\ StoreFails
          /\ SetTask(t, Rejected(t))
          /\ UNCHANGED swept
    /\ UNCHANGED <<sched, monitors, history, notificationLog, sent, observed, now,
                   env, checkIntervalMs, delayOf, call, requests>>

\* the loop of checkAllMonitors, were it to test this.isRunning after the sleep
\* and leave the rest of the list when the scheduler has been stopped
SleepUnlessStopped(t) ==
    /\ tasks[t].pc = "sleep"
    /\ now' = IF DateNow >= tasks[t].since * 1000 + SleepMs
              THEN now ELSE tasks[t].since + SleepMs \div 1000
    /\ SetTask(t, IF tasks[t].i < Len(tasks[t].monitors) /\ isRunning
                  THEN [tasks[t] EXCEPT !.i = @ + 1, !.pc = "checkUrl", !.status = "down",
                                        !.success = FALSE, !.downDuration = NULL,
                                        !.since = 0, !.calls = <<>>, !.logged = 0,
                                        !.faulted = FALSE]
                  ELSE Finished(t))
    /\ UNCHANGED <<sched, monitors, history, notificationLog, sent, observed, storeErrors,
                   env, checkIntervalMs, delayOf, swept, call, requests>>

\* the loop of checkAllMonitors, were it to end after the first monitor of the list
SleepThenReturn(t) ==
    /\ tasks[t].pc = "sleep"
    /\ now' = IF DateNow >= tasks[t].since * 1000 + SleepMs
              THEN now ELSE tasks[t].since + SleepMs \div 1000
    /\ SetTask(t, Finished(t))
    /\ UNCHANGED <<sched, monitors, history, notificationLog, sent, observed, storeErrors,
                   env, checkIntervalMs, delayOf, swept, call, requests>>

\* the loop of checkAllMonitors without its await this.sleep(1000)
SleepSkipped(t) ==
    /\ tasks[t].pc = "sleep"
    /\ SetTask(t, IF tasks[t].i < Len(tasks[t].monitors)
                  THEN [tasks[t] EXCEPT !.i = @ + 1, !.pc = "checkUrl", !.status = "down",
                                        !.success = FALSE, !.downDuration = NULL,
                                        !.since = 0, !.calls = <<>>, !.logged = 0,
                                        !.faulted = FALSE]
                  ELSE Finished(t))
    /\ UNCHANGED <<sched, monitors, history, notificationLog, sent, observed, now, storeErrors,
                   env, checkIntervalMs, delayOf, swept, call, requests>>

\* await this.sleep(1000), then the next monitor of the list or the end of the
\* sweep; the timer of the sleep fires once its delay has passed
Sleep(t) ==
    /\ tasks[t].pc = "sleep"
    /\ now' = IF DateNow >= tasks[t].since * 1000 + SleepMs
              THEN now ELSE tasks[t].since + SleepMs \div 1000
    /\ SetTask(t, IF tasks[t].i < Len(tasks[t].monitors)
                  THEN [tasks[t] EXCEPT !.i = @ + 1, !.pc = "checkUrl", !.status = "down",
                                        !.success = FALSE, !.downDuration = NULL,
                                        !.since = 0, !.calls = <<>>, !.logged = 0,
                                        !.faulted = FALSE]
                  ELSE Finished(t))
    /\ UNCHANGED <<sched, monitors, history, notificationLog, sent, observed, storeErrors,
                   env, checkIntervalMs, delayOf, swept, call, requests>>

\* ------------------------------------------------------------ checkMonitor

\* const result = await this.checkUrl(monitor.url)
Probe(t) ==
    /\ tasks[t].pc = "checkUrl"
    /\ \E o \in FetchOutcomes :
          LET result == checkUrl(<<"host">>, fetch(o), 0)
          IN  /\ SetTask(t, [tasks[t] EXCEPT !.status = result.status, !.pc = "updateMonitorStatus"])
              /\ observed' = [observed EXCEPT ![Cur(t).id] = @ \cup {result.status}]
    /\ UNCHANGED <<sched, monitors, history, notificationLog, sent, now, storeErrors,
                   env, checkIntervalMs, delayOf, swept, call, requests>>

\* handleStatusChange: which notification the check sends, from the row the
\* task holds and the status just classified
\* handleStatusChange without the test of notifications_enabled
handleStatusChangeUngated(monitor, newStatus) ==
    IF monitor.status # newStatus
    THEN IF newStatus = "down" /\ monitor.status = "up" THEN "down"
         ELSE IF newStatus = "up" /\ monitor.status = "down" THEN "up"
         ELSE "none"
    ELSE "none"

\* handleStatusChange testing only the new status, not the previous one
handleStatusChangeAnyPrior(monitor, newStatus) ==
    IF monitor.status # newStatus /\ monitor.notifications_enabled
    THEN IF newStatus = "down" THEN "down" ELSE "up"
    ELSE "none"

\* handleStatusChange without its branch for the recovery
handleStatusChangeDownOnly(monitor, newStatus) ==
    IF monitor.status # newStatus /\ monitor.notifications_enabled
    THEN IF newStatus = "down" /\ monitor.status = "up" THEN "down" ELSE "none"
    ELSE "none"

\* handleStatusChange, were a monitor not yet checked taken as up
handleStatusChangePendingAsUp(monitor, newStatus) ==
    IF monitor.status # newStatus /\ monitor.notifications_enabled
    THEN IF newStatus = "down" /\ monitor.status \in {"up", "pending"} THEN "down"
         ELSE IF newStatus = "up" /\ monitor.status = "down" THEN "up"
         ELSE "none"
    ELSE "none"

handleStatusChange(monitor, newStatus) ==
    IF monitor.status # newStatus /\ monitor.notifications_enabled
    THEN IF newStatus = "down" /\ monitor.status = "up" THEN "down"
         ELSE IF newStatus = "up" /\ monitor.status = "down" THEN "up"
         ELSE "none"
    ELSE "none"

\* UPDATE monitors SET <field> = <value> WHERE id = ?
UpdateRow(id, field, value) ==
    IF monitors[id].exists
    THEN monitors' = [monitors EXCEPT ![id] = [@ EXCEPT ![field] = value]]
    ELSE UNCHANGED monitors

\* await this.updateMonitorStatus(...), then the synchronous head of handleStatusChange
updateMonitorStatus(t) ==
    /\ tasks[t].pc = "updateMonitorStatus"
    /\ \/ /\ UpdateRow(Cur(t).id, "status", tasks[t].status)
          /\ SetTask(t, [tasks[t] EXCEPT !.pc =
                 CASE handleStatusChange(Cur(t), tasks[t].status) = "down" -> "emailDown"
                   [] handleStatusChange(Cur(t), tasks[t].status) = "up"   -> "lastDownEvent"
                   [] OTHER -> "logStatusCheck"])
          /\ UNCHANGED storeErrors
       \/ /\ StoreFails
          /\ SetTask(t, Rejected(t))
          /\ UNCHANGED monitors
    /\ UNCHANGED <<sched, history, notificationLog, sent, observed, now,
                   env, checkIntervalMs, delayOf, swept, call, requests>>

\* the call to the notifier delegate, as the ledger of calls keeps it
Call(type, duration, outcome) ==
    [type |-> type, downDuration |-> duration, outcome |-> outcome, at |-> now]

\* sendDownNotification: await emailService.sendDownNotification(...)
EmailDown(t) ==
    /\ tasks[t].pc = "emailDown"
    /\ \E r \in NotifierOutcomes :
          /\ sent' = [sent EXCEPT ![Cur(t).id] = Append(@, Call("down", NULL, r))]
          /\ SetTask(t, [tasks[t] EXCEPT !.calls = Append(@, "down"),
                                         !.success = (r = "success"),
                                         !.pc = IF r = "raise" THEN "lastSent" ELSE "logDown"])
    /\ UNCHANGED <<sched, monitors, history, notificationLog, observed, now, storeErrors,
                   env, checkIntervalMs, delayOf, swept, call, requests>>

\* INSERT INTO notification_log
logNotification(id, type, success) ==
    notificationLog' = [notificationLog EXCEPT ![id] =
                           Append(@, [type |-> type, success |-> success])]

\* sendDownNotification: await this.logNotification(..., 'down', result.success, ...)
LogDown(t) ==
    /\ tasks[t].pc = "logDown"
    /\ \/ /\ logNotification(Cur(t).id, "down", tasks[t].success)
          /\ SetTask(t, [tasks[t] EXCEPT !.logged = @ + 1,
                                         !.pc = IF tasks[t].success THEN "lastSentOk" ELSE "lastSent"])
          /\ UNCHANGED storeErrors
       \/ /\ StoreFails
          /\ SetTask(t, [tasks[t] EXCEPT !.pc = "lastSent", !.faulted = TRUE])
          /\ UNCHANGED notificationLog
    /\ UNCHANGED <<sched, monitors, history, sent, observed, now,
                   env, checkIntervalMs, delayOf, swept, call, requests>>

\* sendDownNotification without the update of last_notification_sent on success
LastSentOkSkipped(t) ==
    /\ tasks[t].pc = "lastSentOk"
    /\ SetTask(t, [tasks[t] EXCEPT !.pc = "lastSent"])
    /\ UNCHANGED <<sched, monitors, history, notificationLog, sent, observed, now, storeErrors,
                   env, checkIntervalMs, delayOf, swept, call, requests>>

\* sendDownNotification: if (result.success) UPDATE monitors SET last_notification_sent
LastSentOk(t) ==
    /\ tasks[t].pc = "lastSentOk"
    /\ \/ /\ UpdateRow(Cur(t).id, "last_notification_sent", <<now>>)
          /\ SetTask(t, [tasks[t] EXCEPT !.pc = "lastSent"])
          /\ UNCHANGED storeErrors
       \/ /\ StoreFails
          /\ SetTask(t, [tasks[t] EXCEPT !.pc = "lastSent", !.faulted = TRUE])
          /\ UNCHANGED monitors
    /\ UNCHANGED <<sched, history, notificationLog, sent, observed, now,
                   env, checkIntervalMs, delayOf, swept, call, requests>>

\* handleStatusChange: UPDATE monitors SET last_notification_sent after sendDownNotification
LastSent(t) ==
    /\ tasks[t].pc = "lastSent"
    /\ \/ /\ UpdateRow(Cur(t).id, "last_notification_sent", <<now>>)
          /\ SetTask(t, [tasks[t] EXCEPT !.pc = "logStatusCheck"])
          /\ UNCHANGED storeErrors
       \/ /\ StoreFails
          /\ SetTask(t, Rejected(t))
          /\ UNCHANGED monitors
    /\ UNCHANGED <<sched, history, notificationLog, sent, observed, now,
                   env, checkIntervalMs, delayOf, swept, call, requests>>

\* sendUpNotification: the duration text, from the answer of the history query
DownDuration(monitor, tz) ==
    IF lastDownEvent(monitor.id) # NULL
    THEN formatDuration(DateNow - ParseDate(lastDownEvent(monitor.id)[1], tz))
    ELSE IF monitor.last_notification_sent # NULL
    THEN formatDuration(DateNow - ParseDate(monitor.last_notification_sent[1], tz))
    ELSE NULL

\* sendUpNotification: const lastDownEvent = await this.db.get(...)
LastDownEvent(t) ==
    /\ tasks[t].pc = "lastDownEvent"
    /\ \/ /\ \E tz \in TzOffsets :
                SetTask(t, [tasks[t] EXCEPT !.downDuration = DownDuration(Cur(t), tz), !.pc = "emailUp"])
          /\ UNCHANGED storeErrors
       \/ /\ StoreFails
          /\ SetTask(t, [tasks[t] EXCEPT !.pc = "logStatusCheck", !.faulted = TRUE])
    /\ UNCHANGED <<sched, monitors, history, notificationLog, sent, observed, now,
                   env, checkIntervalMs, delayOf, swept, call, requests>>

\* sendUpNotification: await emailService.sendUpNotification(...)
EmailUp(t) ==
    /\ tasks[t].pc = "emailUp"
    /\ \E r \in NotifierOutcomes :
          /\ sent' = [sent EXCEPT ![Cur(t).id] = Append(@, Call("up", tasks[t].downDuration, r))]
          /\ SetTask(t, [tasks[t] EXCEPT !.calls = Append(@, "up"),
                                         !.success = (r = "success"),
                                         !.pc = IF r = "raise" THEN "logStatusCheck" ELSE "logUp"])
    /\ UNCHANGED <<sched, monitors, history, notificationLog, observed, now, storeErrors,
                   env, checkIntervalMs, delayOf, swept, call, requests>>

\* sendUpNotification: await this.logNotification(..., 'up', result.success, ...)
LogUp(t) ==
    /\ tasks[t].pc = "logUp"
    /\ \/ /\ logNotification(Cur(t).id, "up", tasks[t].success)
          /\ SetTask(t, [tasks[t] EXCEPT !.logged = @ + 1, !.pc = "logStatusCheck"])
          /\ UNCHANGED storeErrors
       \/ /\ StoreFails
          /\ SetTask(t, [tasks[t] EXCEPT !.pc = "logStatusCheck", !.faulted = TRUE])
          /\ UNCHANGED notificationLog
    /\ UNCHANGED <<sched, monitors, history, sent, observed, now,
                   env, checkIntervalMs, delayOf, swept, call, requests>>

\* checkMonitor, were it to record only the checks made by a sweep
logStatusCheckOfSweep(t) ==
    /\ tasks[t].pc = "logStatusCheck"
    /\ \/ /\ history' = [history EXCEPT ![Cur(t).id] =
                 IF tasks[t].kind = "sweep"
                 THEN Append(@, [status |-> tasks[t].status, checked_at |-> now])
                 ELSE @]
          /\ SetTask(t, IF tasks[t].kind = "sweep"
                        THEN [tasks[t] EXCEPT !.pc = "sleep", !.since = now]
                        ELSE Finished(t))
          /\ UNCHANGED storeErrors
       \/ /\ StoreFails
          /\ SetTask(t, Rejected(t))
          /\ UNCHANGED history
    /\ UNCHANGED <<sched, monitors, notificationLog, sent, observed, now,
                   env, checkIntervalMs, delayOf, swept, call, requests>>
\* await this.logStatusCheck(...): the end of checkMonitor
logStatusCheck(t) ==
    /\ tasks[t].pc = "logStatusCheck"
    /\ \/ /\ history' = [history EXCEPT ![Cur(t).id] =
                 Append(@, [status |-> tasks[t].status, checked_at |-> now])]
          /\ SetTask(t, IF tasks[t].kind = "sweep"
                        THEN [tasks[t] EXCEPT !.pc = "sleep", !.since = now]
                        ELSE Finished(t))
          /\ UNCHANGED storeErrors
       \/ /\ StoreFails
          /\ SetTask(t, Rejected(t))
          /\ UNCHANGED history
    /\ UNCHANGED <<sched, monitors, notificationLog, sent, observed, now,
                   env, checkIntervalMs, delayOf, swept, call, requests>>

Next ==
    \/ startMonitoring
    \/ stopMonitoring
    \/ TimerFire
    \/ Tick
    \/ \E id \in MonitorIds, enabled \in BOOLEAN : CreateMonitor(id, enabled)
    \/ \E t \in DOMAIN tasks : LoadMonitors(t)
    \/ \E t \in DOMAIN tasks : Probe(t)
    \/ \E t \in DOMAIN tasks : updateMonitorStatus(t)
    \/ \E t \in DOMAIN tasks : EmailDown(t)
    \/ \E t \in DOMAIN tasks : LogDown(t)
    \/ \E t \in DOMAIN tasks : LastSentOk(t)
    \/ \E t \in DOMAIN tasks : LastSent(t)
    \/ \E t \in DOMAIN tasks : LastDownEvent(t)
    \/ \E t \in DOMAIN tasks : EmailUp(t)
    \/ \E t \in DOMAIN tasks : LogUp(t)
    \/ \E t \in DOMAIN tasks : logStatusCheck(t)
    \/ \E t \in DOMAIN tasks : Sleep(t)

Spec == Init /\ [][Next]_vars

\* the same service, constructed with MONITORING_INTERVAL set or not
SpecEnv == InitEnv /\ [][Next]_vars

\* The serial environment: the store never fails, and a sweep or an
\* on-creation check begins only when none is under way (the interval exceeds
\* the duration of a sweep, monitors are created between sweeps).
Quiet == InFlight = {}

NoFault == storeErrors' = storeErrors

NextSerial ==
    \/ Quiet /\ startMonitoring
    \/ stopMonitoring
    \/ Quiet /\ TimerFire
    \/ Tick
    \/ \E id \in MonitorIds, enabled \in BOOLEAN : Quiet /\ CreateMonitor(id, enabled)
    \/ \E t \in DOMAIN tasks : LoadMonitors(t) /\ NoFault
    \/ \E t \in DOMAIN tasks : Probe(t)
    \/ \E t \in DOMAIN tasks : updateMonitorStatus(t) /\ NoFault
    \/ \E t \in DOMAIN tasks : EmailDown(t)
    \/ \E t \in DOMAIN tasks : LogDown(t) /\ NoFault
    \/ \E t \in DOMAIN tasks : LastSentOk(t) /\ NoFault
    \/ \E t \in DOMAIN tasks : LastSent(t) /\ NoFault
    \/ \E t \in DOMAIN tasks : LastDownEvent(t) /\ NoFault
    \/ \E t \in DOMAIN tasks : EmailUp(t)
    \/ \E t \in DOMAIN tasks : LogUp(t) /\ NoFault
    \/ \E t \in DOMAIN tasks : logStatusCheck(t) /\ NoFault
    \/ \E t \in DOMAIN tasks : Sleep(t)

SpecSerial == Init /\ [][NextSerial]_vars

\* ------------------------------------------- the routines taken one by one

\* most records a monitor's history holds when getMonitorStats is called
MaxRecords == 3

Min(S) == CHOOSE x \in S : \A y \in S : x <= y

RECURSIVE Sum(_, _)
Sum(f, S) == IF S = {} THEN 0
             ELSE LET x == CHOOSE y \in S : TRUE IN f[x] + Sum(f, S \ {x})

\* Number.prototype.toFixed(2) of the quotient num / den * 100: the decimal
\* text, as its integer part and its two decimals (the number 0 is <<0>>)
toFixed2(num, den) ==
    LET hundredths == (2 * num * 10000 + den) \div (2 * den)
    IN  <<hundredths \div 100, hundredths % 100>>

\* getMonitorStats without the restriction to the window
getMonitorStatsAllTime(monitorId, hours) ==
    LET rows == history[monitorId]
        up == {i \in DOMAIN rows : rows[i].status = "up"}
        latency == [i \in DOMAIN rows |-> rows[i].response_time]
    IN  [total_checks |-> Len(rows),
         up_checks |-> IF rows = <<>> THEN NULL ELSE <<Cardinality(up)>>,
         down_checks |-> IF rows = <<>> THEN NULL ELSE <<Len(rows) - Cardinality(up)>>,
         avg_response_time |->
             IF rows = <<>> THEN NULL
             ELSE <<Sum(latency, DOMAIN rows), Len(rows)>>,
         min_response_time |->
             IF rows = <<>> THEN NULL ELSE <<Min({latency[i] : i \in DOMAIN rows})>>,
         max_response_time |->
             IF rows = <<>> THEN NULL ELSE <<Max({latency[i] : i \in DOMAIN rows})>>,
         uptime_percentage |->
             IF Len(rows) > 0 THEN toFixed2(Cardinality(up), Len(rows)) ELSE <<0>>]

\* getMonitorStats: the aggregates of the SELECT over the rows of the monitor
\* with checked_at > datetime('now', '-<hours> hours'), and the percentage.
\* SUM, AVG, MIN and MAX over no row are NULL, else the number n is <<n>> and
\* the average the quotient <<numerator, denominator>>.
getMonitorStats(monitorId, hours) ==
    LET rows == history[monitorId]
        window == {i \in DOMAIN rows : rows[i].checked_at > now - hours * 3600}
        up == {i \in window : rows[i].status = "up"}
        down == {i \in window : rows[i].status = "down"}
        latency == [i \in DOMAIN rows |-> rows[i].response_time]
    IN  [total_checks |-> Cardinality(window),
         up_checks |-> IF window = {} THEN NULL ELSE <<Cardinality(up)>>,
         down_checks |-> IF window = {} THEN NULL ELSE <<Cardinality(down)>>,
         avg_response_time |->
             IF window = {} THEN NULL
             ELSE <<Sum(latency, window), Cardinality(window)>>,
         min_response_time |->
             IF window = {} THEN NULL ELSE <<Min({latency[i] : i \in window})>>,
         max_response_time |->
             IF window = {} THEN NULL ELSE <<Max({latency[i] : i \in window})>>,
         uptime_percentage |->
             IF Cardinality(window) > 0
             THEN toFixed2(Cardinality(up), Cardinality(window)) ELSE <<0>>]

\* the durations formatDuration is given, in ms
DurationInputs ==
    {0, 999, 1000, 45000, 59000, 60000, 61000, 3599000, 3600000, 3660000, 7200000,
     7300000, 86400000, 86460000, 90000000, 172800000, 176400000}

\* the URLs of monitors, as accepted by POST /api/monitors
UrlInputs == {<<"host">>, <<"http://", "host">>, <<"https://", "host">>}

\* the time the request took, in ms
ElapsedInputs == {120, TimeoutMs}

\* the moment getMonitorStats is called, and the moments of the records:
\* 25 h, 24 h and 1 h before it, and that moment
StatsNow == 90000

CheckedAtInputs == {0, 3600, 86400, 90000}

HoursInputs == {1, 24}

\* the rows of monitor_status_history as checkMonitor writes them: the status,
\* the response time of checkUrl (measured for down results too) and the time
RecordInputs ==
    [status : {"up", "down"}, response_time : ElapsedInputs, checked_at : CheckedAtInputs]

\* histories in the order of insertion: checked_at never decreases
HistoryInputs ==
    {h \in UNION {[1..n -> RecordInputs] : n \in 0..MaxRecords} :
        \A i \in 1..(Len(h) - 1) : h[i].checked_at <= h[i + 1].checked_at}

\* the calls under study, with their arguments, before they are made
CallInputs ==
    [routine : {"formatDuration"}, milliseconds : DurationInputs, returned : {FALSE}]
    \cup {c \in [routine : {"checkUrl"}, url : UrlInputs, fetched : Fetched,
                  responseTime : ElapsedInputs, returned : {FALSE}] :
             (c.fetched.kind = "throw" /\ c.fetched.name = "AbortError")
                 => c.responseTime = TimeoutMs}
    \cup [routine : {"getMonitorStats"}, monitorId : {1}, hours : HoursInputs,
          returned : {FALSE}]

\* a state of the service in which one of the routines is about to be called:
\* for getMonitorStats with the history of monitor 1 any of HistoryInputs, and
\* one record of monitor 2 inside every window
InitCall ==
    /\ call \in CallInputs
    /\ requests = <<>>
    /\ IF call.routine = "getMonitorStats"
       THEN /\ \E h \in HistoryInputs :
                  history = [id \in MonitorIds |->
                                IF id = 1 THEN h
                                ELSE <<[status |-> "down", response_time |-> TimeoutMs,
                                        checked_at |-> StatsNow]>>]
            /\ now = StatsNow
       ELSE /\ history = [id \in MonitorIds |-> <<>>]
            /\ now = 0
    /\ monitors = [id \in MonitorIds |->
                      [exists |-> TRUE,
                       status |-> IF history[id] = <<>> THEN "pending"
                                  ELSE history[id][Len(history[id])].status,
                       notifications_enabled |-> FALSE,
                       last_notification_sent |-> NULL]]
    /\ env = NULL
    /\ checkIntervalMs = DefaultIntervalMs
    /\ delayOf = <<>>
    /\ swept = [id \in MonitorIds |-> 0]
    /\ isRunning = FALSE
    /\ monitoringInterval = 0
    /\ timers = {}
    /\ notificationLog = [id \in MonitorIds |-> <<>>]
    /\ sent = [id \in MonitorIds |-> <<>>]
    /\ observed = [id \in MonitorIds |-> {}]
    /\ tasks = <<>>
    /\ storeErrors = 0

\* the call returns: its result is kept with its arguments
Return(result) ==
    /\ ~call.returned
    /\ call' = [routine |-> call.routine, args |-> call, returned |-> TRUE, result |-> result]
    /\ UNCHANGED <<sched, monitors, history, notificationLog, sent, observed, tasks, now,
                   storeErrors, env, checkIntervalMs, delayOf, swept, requests>>

FormatDuration ==
    /\ call.routine = "formatDuration"
    /\ Return(formatDuration(call.milliseconds))

CheckUrl ==
    /\ call.routine = "checkUrl"
    /\ Return(checkUrl(call.url, call.fetched, call.responseTime))

GetMonitorStats ==
    /\ call.routine = "getMonitorStats"
    /\ Return(getMonitorStats(call.monitorId, call.hours))

NextCall ==
    \/ FormatDuration
    \/ CheckUrl
    \/ GetMonitorStats

SpecCall == InitCall /\ [][NextCall]_vars

\* ------------------------------------------------------------------ claims

Sweeps == {t \in DOMAIN tasks : tasks[t].kind = "sweep"}

\* a step of the sweep or on-creation check t: the await it is at completes
Step(t) ==
    /\ t \in DOMAIN tasks
    /\ \/ LoadMonitors(t) \/ Probe(t) \/ updateMonitorStatus(t) \/ EmailDown(t)
       \/ LogDown(t) \/ LastSentOk(t) \/ LastSent(t) \/ LastDownEvent(t)
       \/ EmailUp(t) \/ LogUp(t) \/ logStatusCheck(t) \/ Sleep(t)

\* a step of some sweep or on-creation check
TaskStep == \E t \in DOMAIN tasks : Step(t)

\* every await of a sweep or check completes in the end: the probe answers or
\* is aborted after 30 s, the sleep's timer fires, the store and the notifier
\* return or raise
\* one sweep or on-creation check at a time, the store failing or not
NextOneAtATime ==
    \/ Quiet /\ startMonitoring
    \/ stopMonitoring
    \/ Quiet /\ TimerFire
    \/ Tick
    \/ \E id \in MonitorIds, enabled \in BOOLEAN : Quiet /\ CreateMonitor(id, enabled)
    \/ \E t \in DOMAIN tasks : Step(t)

SpecFair == Init /\ [][NextOneAtATime]_vars /\ \A t \in 1..MaxTasks : WF_vars(Step(t))

\* C7: a failure raised while checking one monitor of a sweep does not abort the
\* sweep: no sweep ends with monitors of its loaded list left unchecked.
C7_SweepChecksEveryMonitor ==
    \A t \in Sweeps : tasks[t].pc = "done" => tasks[t].unchecked = 0

\* C8: no failure of the store, the prober or the notifier escapes: every
\* rejection of a sweep or of an on-creation check is received by a handler, and
\* no step of a sweep or check, failing or not, changes the scheduler's state.
C8_NoFailureEscapes ==
    /\ [](\A t \in DOMAIN tasks : tasks[t].err # "unhandled")
    /\ [][TaskStep => UNCHANGED sched]_vars

\* a store operation failed in a sweep while the scheduler was running; the
\* rejection was caught and the scheduler is still running, its timer armed
C8_Witness ==
    \E t \in Sweeps : tasks[t].err = "caught" /\ isRunning /\ timers # {}

\* C9: at every moment at most one sweep is in progress.
C9_AtMostOneSweepInProgress ==
    Cardinality({t \in Sweeps : tasks[t].pc # "done"}) <= 1

\* C10: start and stop are idempotent (start while running and stop while
\* stopped change nothing), at most one repeating timer is armed, and a timer
\* is armed exactly when the running flag is true.
C10_StartStopIdempotent ==
    /\ [](/\ Cardinality(timers) <= 1
          /\ (timers # {}) <=> isRunning
          /\ isRunning => timers = {monitoringInterval}
          /\ ~isRunning => monitoringInterval = 0)
    /\ [][(isRunning /\ startMonitoring) => UNCHANGED vars]_vars
    /\ [][(~isRunning /\ stopMonitoring) => UNCHANGED vars]_vars

\* the scheduler was started, stopped and started again: it runs, one timer armed
C10_Witness ==
    /\ isRunning
    /\ timers = {monitoringInterval}
    /\ Cardinality(Sweeps) >= 2

\* the tasks that hold a monitor of their list: the one they are checking, or
\* have just checked
Holding == {t \in DOMAIN tasks : tasks[t].pc \notin {"all", "done"}}

\* checkMonitor is running for monitor m
Checking(m) == \E t \in Holding : tasks[t].pc # "sleep" /\ Cur(t).id = m

\* the checks whose handleStatusChange has returned
Handled == {t \in Holding : tasks[t].pc \in {"logStatusCheck", "sleep"}}

\* the status transitions in a monitor's recorded history
Transitions(h) == Cardinality({i \in 1..(Len(h) - 1) : h[i].status # h[i + 1].status})

\* C1: the number of notifier calls for a monitor never exceeds the number of
\* status transitions in its recorded history (read with no check of the
\* monitor under way and no store operation failed).
C1_AtMostOneCallPerTransition ==
    \A m \in MonitorIds :
        (~Checking(m) /\ storeErrors = 0) => Len(sent[m]) <= Transitions(history[m])

Statuses(h) == [i \in DOMAIN h |-> h[i].status]

LogEntries(l) == [i \in DOMAIN l |-> <<l[i].type, l[i].success>>]

\* C2: with notifications enabled and a notifier that succeeds, three
\* successive checks classifying up, down, up from pending leave exactly one
\* log entry of kind down and then one of kind up, and the up notification
\* carries the time between the down record and the moment of the up check.
C2_UpDownUp ==
    \A m \in MonitorIds :
        (/\ monitors[m].exists /\ monitors[m].notifications_enabled
         /\ ~Checking(m)
         /\ Statuses(history[m]) = <<"up", "down", "up">>
         /\ \A i \in DOMAIN sent[m] : sent[m][i].outcome = "success")
        => /\ LogEntries(notificationLog[m]) = << <<"down", TRUE>>, <<"up", TRUE>> >>
           /\ Len(sent[m]) = 2
           /\ sent[m][1].type = "down"
           /\ sent[m][2].type = "up"
           /\ sent[m][2].downDuration # NULL
           /\ sent[m][2].downDuration =
                 formatDuration((sent[m][2].at - history[m][2].checked_at) * 1000)

C4_NoNotificationWithoutTransition ==
    /\ \A t \in Holding :
           (\/ Cur(t).status = "pending"
            \/ tasks[t].pc # "checkUrl" /\ tasks[t].status = Cur(t).status)
           => (tasks[t].calls = <<>> /\ tasks[t].logged = 0)
    /\ \A m \in MonitorIds :
           observed[m] \subseteq {"up"} => (sent[m] = <<>> /\ notificationLog[m] = <<>>)

\* a check of a monitor with notifications enabled, last seen down, has
\* classified down again and is complete
C4_Witness ==
    \E t \in Handled :
        /\ Cur(t).notifications_enabled
        /\ Cur(t).status = "down" /\ tasks[t].status = "down"

C6_EveryCallLogged ==
    \A t \in Holding :
        (storeErrors = 0 /\ tasks[t].pc \in {"lastSentOk", "lastSent", "logStatusCheck", "sleep"})
        => tasks[t].logged = Len(tasks[t].calls)

\* C11: start on a stopped scheduler launches the first sweep in the start call
\* itself and arms, in the same call, one repeating timer with the configured
\* interval, 300000 ms when MONITORING_INTERVAL is not set; every other sweep
\* is launched by a fire of an armed timer.
C11_StartSweepsThenArms ==
    /\ [][(~isRunning /\ isRunning') =>
             /\ tasks' = Append(tasks, NewTask("sweep", <<>>, "all"))
             /\ timers' = timers \cup {monitoringInterval'}
             /\ monitoringInterval' \notin timers
             /\ delayOf'[monitoringInterval'] = checkIntervalMs]_vars
    /\ [][(Cardinality(Sweeps') > Cardinality(Sweeps) /\ isRunning = isRunning') =>
             timers # {}]_vars
    /\ [](\A h \in timers :
             delayOf[h] = IF env = NULL THEN 300000 ELSE parseInt(env))

\* the scheduler has just been started, MONITORING_INTERVAL not set: its first
\* sweep is about to load the monitors, and the timer is armed at 300000 ms
C11_Witness ==
    /\ isRunning
    /\ \E t \in Sweeps : tasks[t].pc = "all" /\ Cardinality(Sweeps) = 1
    /\ timers # {}
    /\ env = NULL
    /\ delayOf[monitoringInterval] = 300000

\* the sweeps under way
Sweeping == {t \in Sweeps : tasks[t].pc # "done"}

\* C12: stop clears the repeating timer and leaves every sweep and check in
\* flight as it is; while no timer is armed a sweep begins only by a start; a
\* sweep in flight goes on whether or not the scheduler runs: it ends, and it
\* ends before the last monitor of its loaded list has been checked only by a
\* raised failure.
C12_StopLeavesSweepRunning ==
    /\ [][stopMonitoring => (timers' = {} /\ tasks' = tasks /\ history' = history)]_vars
    /\ [][(timers = {} /\ Cardinality(Sweeps') > Cardinality(Sweeps)) =>
             (~isRunning /\ isRunning')]_vars
    /\ [][\A t \in Sweeping :
             (tasks'[t].pc = "done" /\ tasks'[t].err = "none") =>
                 \/ tasks[t].pc = "sleep" /\ tasks[t].i = Len(tasks[t].monitors)
                 \/ tasks[t].pc = "all" /\ AllMonitors = <<>>]_vars
    /\ [][\A t \in Sweeping :
             (tasks[t].pc = "sleep" /\ tasks[t].i < Len(tasks[t].monitors) /\ tasks'[t] # tasks[t]) =>
                 (tasks'[t].pc = "checkUrl" /\ tasks'[t].i = tasks[t].i + 1)]_vars
    /\ \A t \in 1..MaxTasks : (t \in Sweeping) ~> (t \in Sweeps \ Sweeping)

\* the scheduler was stopped while a sweep over two monitors was in flight; the
\* sweep has gone on to its second monitor and is recording its check
C12_Witness ==
    /\ ~isRunning /\ timers = {}
    /\ \E t \in Sweeping : tasks[t].i = 2 /\ tasks[t].pc = "logStatusCheck"

\* C13 as stated: once the sweeps have completed, without store errors, every
\* monitor has as many status check records as sweeps have checked it.
C13_RecordsEqualSweeps ==
    (InFlight = {} /\ storeErrors = 0) =>
        \A m \in MonitorIds : monitors[m].exists => Len(history[m]) = swept[m]

\* C13 as amended: once the on-creation check of a monitor and the sweeps have
\* completed, without store errors, the monitor has one status check record
\* for its on-creation check and one for each sweep whose loaded list held it.
C13_RecordsEqualSweepsPlusOne ==
    (InFlight = {} /\ storeErrors = 0) =>
        \A m \in MonitorIds : monitors[m].exists => Len(history[m]) = swept[m] + 1

\* two sweeps have checked a monitor after its on-creation check, all complete
C13_Witness ==
    /\ InFlight = {} /\ storeErrors = 0
    /\ \E m \in MonitorIds : monitors[m].exists /\ swept[m] = 2 /\ Len(history[m]) = 3

\* C14: whenever no check of a monitor is in progress and the monitor has a
\* status check record, its status field is the status of its most recent
\* record (read where no store operation has failed).
C14_StatusIsLastRecord ==
    \A m \in MonitorIds :
        (monitors[m].exists /\ ~Checking(m) /\ history[m] # <<>> /\ storeErrors = 0)
        => monitors[m].status = history[m][Len(history[m])].status

\* the on-creation checks
Creations == {t \in DOMAIN tasks : tasks[t].kind = "create"}

Existing == {m \in MonitorIds : monitors[m].exists}

Since(stamp) == (now - stamp) * 1000

\* C16: on a down->up transition the duration handed to the up notification is
\* the time from the most recent down record of the monitor to now when there
\* is such a record, else the time from the monitor's last_notification_sent
\* to now when that is set, else null.
C16_DurationSinceLastDown ==
    [][\A t \in Holding :
          (tasks[t].pc = "lastDownEvent" /\ tasks'[t].pc = "emailUp") =>
              tasks'[t].downDuration =
                  IF lastDownEvent(Cur(t).id) # NULL
                  THEN formatDuration(Since(lastDownEvent(Cur(t).id)[1]))
                  ELSE IF monitors[Cur(t).id].last_notification_sent # NULL
                  THEN formatDuration(Since(monitors[Cur(t).id].last_notification_sent[1]))
                  ELSE NULL]_vars

\* the call of formatDuration has returned
Formatted == call.returned /\ call.routine = "formatDuration"

UnitWords == {"day", "hour", "minute", "second"}

\* C17: formatDuration renders one or two units, none with count 0 beside a
\* larger unit, each unit word singular exactly when its count is 1; and
\* 7300000 -> "2 hours 1 minute", 45000 -> "45 seconds", 90000000 -> "1 day 1 hour".
C17_TwoNonZeroUnits ==
    Formatted =>
        LET text == call.result
            ms == call.args.milliseconds
        IN  /\ Len(text) \in {2, 4}
            /\ \A k \in {1, 3} \cap DOMAIN text :
                   \E w \in UnitWords :
                       text[k + 1] = IF text[k] = 1 THEN w ELSE w \o "s"
            /\ Len(text) = 4 => text[3] # 0
            /\ ms = 7300000 => text = <<2, "hours", 1, "minute">>
            /\ ms = 45000 => text = <<45, "seconds">>
            /\ ms = 90000000 => text = <<1, "day", 1, "hour">>

\* the call of getMonitorStats has returned
Counted == call.returned /\ call.routine = "getMonitorStats"

\* the records of the monitor of the call inside its trailing window
InWindow ==
    {i \in DOMAIN history[call.args.monitorId] :
        history[call.args.monitorId][i].checked_at > now - call.args.hours * 3600}

UpInWindow == {i \in InWindow : history[call.args.monitorId][i].status = "up"}

\* a count as a number: null counts as 0, as in the arithmetic of the host
NumberOf(x) == IF x = NULL THEN 0 ELSE x[1]

\* C18 as stated: the counts are those of the records in the window, up and
\* down checks add up to the total, and the percentage is up / total * 100, or
\* the number 0 with no record in the window.
C18_UptimeExact ==
    Counted =>
        LET r == call.result
        IN  /\ r.total_checks = Cardinality(InWindow)
            /\ NumberOf(r.up_checks) = Cardinality(UpInWindow)
            /\ NumberOf(r.up_checks) + NumberOf(r.down_checks) = r.total_checks
            /\ IF InWindow = {}
               THEN r.uptime_percentage = <<0>>
               ELSE /\ Len(r.uptime_percentage) = 2
                    /\ (r.uptime_percentage[1] * 100 + r.uptime_percentage[2])
                           * Cardinality(InWindow) = Cardinality(UpInWindow) * 10000

\* C18 as amended: with records in the window the counts are theirs, up and
\* down checks add up to the total and the percentage is the decimal text of
\* up / total * 100 rounded to two decimals; with no record in the window the
\* total is 0, the percentage the number 0 and the up and down counts null.
C18_UptimeRounded ==
    Counted =>
        LET r == call.result
            total == Cardinality(InWindow)
            up == Cardinality(UpInWindow)
        IN  /\ r.total_checks = total
            /\ IF total = 0
               THEN /\ r.uptime_percentage = <<0>>
                    /\ r.up_checks = NULL /\ r.down_checks = NULL
               ELSE /\ r.up_checks = <<up>> /\ r.down_checks = <<total - up>>
                    /\ r.up_checks[1] + r.down_checks[1] = r.total_checks
                    /\ Len(r.uptime_percentage) = 2
                    /\ r.uptime_percentage[2] \in 0..99
                    /\ LET h == r.uptime_percentage[1] * 100 + r.uptime_percentage[2]
                       IN  /\ 2 * (h * total - up * 10000) <= total
                           /\ 2 * (up * 10000 - h * total) < total

\* two of the three records of the window are up: "66.67"
C18_Witness ==
    /\ Counted
    /\ Cardinality(InWindow) = 3 /\ Cardinality(UpInWindow) = 2
    /\ call.result.uptime_percentage = <<66, 67>>

\* C19: the average, minimum and maximum latency of the statistics are those
\* of the up records of the window.
C19_LatencyOfUpRecords ==
    Counted =>
        LET r == call.result
            latency == [i \in DOMAIN history[call.args.monitorId] |->
                           history[call.args.monitorId][i].response_time]
        IN  IF UpInWindow = {}
            THEN /\ r.avg_response_time = NULL
                 /\ r.min_response_time = NULL
                 /\ r.max_response_time = NULL
            ELSE /\ Len(r.avg_response_time) = 2
                 /\ r.avg_response_time[1] * Cardinality(UpInWindow)
                        = Sum(latency, UpInWindow) * r.avg_response_time[2]
                 /\ r.min_response_time = <<Min({latency[i] : i \in UpInWindow})>>
                 /\ r.max_response_time = <<Max({latency[i] : i \in UpInWindow})>>

\* the call of checkUrl has returned or raised
Probed == call.returned /\ call.routine = "checkUrl"

Aborted(fetched) == fetched.kind = "throw" /\ fetched.name = "AbortError"

\* C20: checkUrl never raises; the status of its result is up exactly when the
\* final response is ok (2xx); otherwise it is down with a non-empty error
\* text, which is "Timeout" exactly when the request was aborted by the timer.
C20_ProberNeverRaises ==
    Probed =>
        LET r == call.result
            fetched == call.args.fetched
        IN  /\ r.completion = "return"
            /\ r.status \in {"up", "down"}
            /\ r.status = "up" <=> (fetched.kind = "response" /\ fetched.status \in 200..299)
            /\ r.status = "up" => r.error = NULL
            /\ r.status = "down" => (r.error # NULL /\ r.error # <<"">>)
            /\ r.error = <<"Timeout">> <=> Aborted(fetched)
            /\ r.responseTime = call.args.responseTime

\* the request of a URL given without protocol was aborted by the 30 s timer:
\* the result is down, "Timeout"
C20_Witness ==
    /\ Probed
    /\ call.args.url = <<"host">>
    /\ Aborted(call.args.fetched)
    /\ call.result.completion = "return"
    /\ call.result.requested = <<"https://", "host">>
    /\ call.result.status = "down"
    /\ call.result.error = <<"Timeout">>

\* the checks that have made a down notification which succeeded
SentDownOk == {t \in Holding : tasks[t].calls = <<"down">> /\ tasks[t].success}

\* C21: in a check that has sent a down notification with success, the update
\* that follows the logging sets the monitor's last_notification_sent to the
\* current time, and once the transition is handled the timestamp is set.
C21_SuccessSetsLastSent ==
    /\ [][\A t \in SentDownOk :
             (tasks[t].pc = "lastSentOk" /\ tasks'[t].pc = "lastSent" /\ ~tasks'[t].faulted) =>
                 monitors'[Cur(t).id].last_notification_sent = <<now>>]_vars
    /\ [][\A t \in SentDownOk :
             (tasks[t].pc = "logDown" /\ tasks'[t] # tasks[t] /\ ~tasks'[t].faulted) =>
                 tasks'[t].pc = "lastSentOk"]_vars
    /\ [](\A t \in SentDownOk :
             tasks[t].pc \in {"logStatusCheck", "sleep"} =>
                 /\ monitors[Cur(t).id].last_notification_sent # NULL
                 /\ monitors[Cur(t).id].last_notification_sent[1] <= now)

\* a check has sent a down notification with success, logged it and has just
\* set last_notification_sent to the current time, one second after the start
C21_Witness ==
    \E t \in SentDownOk :
        /\ tasks[t].pc = "lastSent" /\ ~tasks[t].faulted
        /\ now = 1
        /\ Cur(t).last_notification_sent = NULL
        /\ monitors[Cur(t).id].last_notification_sent = <<1>>

\* C25: in a check whose down notification failed (success = false, or the
\* notifier raised), no step after the call changes the monitor's
\* last_notification_sent.
C25_FailureKeepsLastSent ==
    [][\A t \in Holding :
          (/\ tasks[t].calls = <<"down">> /\ ~tasks[t].success
           /\ tasks[t].pc \in {"logDown", "lastSentOk", "lastSent"}
           /\ tasks'[t] # tasks[t])
          => monitors'[Cur(t).id].last_notification_sent
                = monitors[Cur(t).id].last_notification_sent]_vars

\* the pcs of a check between the decision of handleStatusChange and its return
Notifying == {"emailDown", "logDown", "lastSentOk", "lastSent", "lastDownEvent", "emailUp", "logUp"}

\* C23: a sweep holds one monitor of its loaded list at a time and takes them
\* in the order loaded: the list is the answer of the query and never changes,
\* the index moves by one, from the sleep only, once the delay has passed; the
\* sleep is entered from the append of the history record only, and the
\* append from the status overwrite or the end of the transition handling.
C23_OneMonitorAtATime ==
    [][\A t \in Sweeps :
          /\ (tasks[t].pc = "all" /\ tasks'[t].pc \notin {"all", "done"}) =>
                 /\ tasks'[t].monitors = AllMonitors
                 /\ tasks'[t].i = 1 /\ tasks'[t].pc = "checkUrl"
          /\ (t \in Holding /\ tasks'[t].pc # "done") =>
                 /\ tasks'[t].monitors = tasks[t].monitors
                 /\ tasks'[t].i \in {tasks[t].i, tasks[t].i + 1}
                 /\ tasks'[t].i # tasks[t].i =>
                        /\ tasks[t].pc = "sleep" /\ tasks'[t].pc = "checkUrl"
                        /\ now' * 1000 >= tasks[t].since * 1000 + SleepMs
                 /\ (tasks'[t].pc = "sleep" /\ tasks[t].pc # "sleep") =>
                        /\ tasks[t].pc = "logStatusCheck"
                        /\ Len(history'[Cur(t).id]) = Len(history[Cur(t).id]) + 1
                        /\ tasks'[t].since = now
                 /\ (tasks'[t].pc = "logStatusCheck" /\ tasks[t].pc # "logStatusCheck") =>
                        tasks[t].pc \in Notifying \cup {"updateMonitorStatus"}
                 /\ (tasks'[t].pc = "checkUrl" /\ tasks[t].pc # "checkUrl") =>
                        tasks[t].pc = "sleep"
                 /\ (tasks'[t].pc = "updateMonitorStatus" /\ tasks[t].pc # "updateMonitorStatus") =>
                        tasks[t].pc = "checkUrl"]_vars

\* a sweep of two monitors has recorded its first and, a second later, probes
\* its second
C23_Witness ==
    \E t \in Sweeps :
        /\ Len(tasks[t].monitors) = 2 /\ tasks[t].i = 2 /\ tasks[t].pc = "checkUrl"
        /\ history[tasks[t].monitors[1].id] # <<>>
        /\ now >= 1

\* C24: a check calls the notifier only after both writes of the recorder:
\* the status of the row is the one classified, and the record of the check
\* is in the history (with the checks one at a time, one record for the
\* on-creation check and one for each sweep that loaded the monitor).
C24_RecorderBeforeDetector ==
    [][\A t \in Holding :
          Len(tasks'[t].calls) > Len(tasks[t].calls) =>
              /\ monitors[Cur(t).id].status = tasks[t].status
              /\ Len(history[Cur(t).id]) = swept[Cur(t).id] + 1]_vars

\* the kinds of the notifier calls made for a monitor, in order
Kinds(m) == [i \in DOMAIN sent[m] |-> sent[m][i].type]

DownRun(h) == {i \in DOMAIN h : \A j \in i..Len(h) : h[j].status = "down"}

\* the timestamp of the first record of that run
FirstDown(h) == h[CHOOSE i \in DownRun(h) : \A j \in DownRun(h) : i <= j].checked_at

\* C27: when a check finds a monitor up after two or more consecutive down
\* records, the duration it computes for the up notification is the time
\* since the first record of that run (whatever the zone the host reads the
\* timestamp in).
C27_DurationFromFirstDown ==
    [][\A t \in Holding :
          (/\ tasks[t].pc = "lastDownEvent" /\ tasks'[t].pc = "emailUp"
           /\ Cardinality(DownRun(history[Cur(t).id])) >= 2)
          => \E tz \in TzOffsets :
                tasks'[t].downDuration =
                    formatDuration(DateNow - ParseDate(FirstDown(history[Cur(t).id]), tz))]_vars

\* ------------------------------------------------- the monitor routes
\* POST, PUT and DELETE /api/monitors, one step for each completed await of a
\* handler; the requests are those of one authenticated user.

MaxRequests == 2

\* the URLs the user submits
Urls == {"a.ee", "b.ee"}

\* a row that DELETE FROM monitors has removed: its id is not given again
\* (id INTEGER PRIMARY KEY AUTOINCREMENT)
Gone == [exists |-> FALSE, deleted |-> TRUE]

\* the ids given so far: result.lastID of the next INSERT is one more
UsedIds == {id \in MonitorIds : monitors[id] # NoRow}

NewRequest(kind, id, url, enabled) ==
    [kind |-> kind, pc |-> "select", id |-> id, url |-> url, enabled |-> enabled,
     answer |-> 0, ahead |-> {}]

Pending(kind) == {r \in DOMAIN requests : requests[r].kind = kind /\ requests[r].pc # "done"}

\* the request reaches its handler, which runs up to its first await
Arrive(req) ==
    /\ Len(requests) < MaxRequests
    /\ requests' = Append(requests, req)
    /\ UNCHANGED <<sched, monitors, history, notificationLog, sent, observed, tasks, now,
                   storeErrors, env, checkIntervalMs, delayOf, swept, call>>

\* res.status(...).json(...): the handler has answered and ends
Answer(r, code) == requests' = [requests EXCEPT ![r] = [@ EXCEPT !.pc = "done", !.answer = code]]

Goto(r, pc) == requests' = [requests EXCEPT ![r] = [@ EXCEPT !.pc = pc]]

\* POST /api/monitors with a valid url
Post(url, enabled) ==
    /\ Cardinality(UsedIds) + Cardinality(Pending("post")) < MaxMonitors
    /\ Len(tasks) + Cardinality(Pending("post")) < MaxTasks
    /\ Arrive(NewRequest("post", 0, url, enabled))

\* const existingMonitor = await db.get('SELECT * FROM monitors WHERE user_id = ? AND url = ?')
PostExisting(r) ==
    /\ requests[r].kind = "post" /\ requests[r].pc = "select"
    /\ \/ /\ IF \E id \in MonitorIds : monitors[id].exists /\ monitors[id].url = requests[r].url
             THEN Answer(r, 400)
             ELSE Goto(r, "insert")
          /\ UNCHANGED storeErrors
       \/ /\ StoreFails
          /\ Answer(r, 500)
    /\ UNCHANGED <<sched, monitors, history, notificationLog, sent, observed, tasks, now,
                   env, checkIntervalMs, delayOf, swept, call>>

\* const result = await db.run('INSERT INTO monitors (user_id, url, name, notifications_enabled) ...')
PostInsert(r) ==
    /\ requests[r].kind = "post" /\ requests[r].pc = "insert"
    /\ \/ /\ LET id == Cardinality(UsedIds) + 1
             IN  /\ monitors' = [monitors EXCEPT ![id] =
                           [exists |-> TRUE, status |-> "pending",
                            notifications_enabled |-> requests[r].enabled,
                            last_notification_sent |-> NULL,
                            url |-> requests[r].url]]
                 /\ requests' = [requests EXCEPT ![r] = [@ EXCEPT !.pc = "read", !.id = id]]
          /\ UNCHANGED storeErrors
       \/ /\ StoreFails
          /\ Answer(r, 500)
          /\ UNCHANGED monitors
    /\ UNCHANGED <<sched, history, notificationLog, sent, observed, tasks, now,
                   env, checkIntervalMs, delayOf, swept, call>>

\* const newMonitor = await db.get(... WHERE m.id = ?), then
\* monitorService.checkMonitor(newMonitor).catch(...) and the answer; with the
\* row gone, checkMonitor(undefined) rejects at once and the catch receives it
PostRead(r) ==
    /\ requests[r].kind = "post" /\ requests[r].pc = "read"
    /\ \/ /\ Len(tasks) < MaxTasks
          /\ tasks' = IF monitors[requests[r].id].exists
                      THEN Append(tasks, NewTask("create", <<Snapshot(requests[r].id)>>, "checkUrl"))
                      ELSE tasks
          /\ Answer(r, 200)
          /\ UNCHANGED storeErrors
       \/ /\ StoreFails
          /\ Answer(r, 500)
          /\ UNCHANGED tasks
    /\ UNCHANGED <<sched, monitors, history, notificationLog, sent, observed, now,
                   env, checkIntervalMs, delayOf, swept, call>>

\* PUT /api/monitors/:id
Put(id, enabled) == Arrive(NewRequest("put", id, "", enabled))

\* DELETE /api/monitors/:id
Delete(id) == Arrive(NewRequest("delete", id, "", FALSE))

\* const monitor = await db.get('SELECT * FROM monitors WHERE id = ? AND user_id = ?')
\* of the PUT and the DELETE handler
Select(r, next) ==
    /\ requests[r].pc = "select"
    /\ \/ /\ IF monitors[requests[r].id].exists THEN Goto(r, next) ELSE Answer(r, 404)
          /\ UNCHANGED storeErrors
       \/ /\ StoreFails
          /\ Answer(r, 500)
    /\ UNCHANGED <<sched, monitors, history, notificationLog, sent, observed, tasks, now,
                   env, checkIntervalMs, delayOf, swept, call>>

PutSelect(r) == requests[r].kind = "put" /\ Select(r, "update")

\* the sweeps that have loaded the monitor and have not yet come to it
Ahead(id) ==
    {t \in DOMAIN tasks :
        /\ tasks[t].kind = "sweep" /\ tasks[t].pc \notin {"all", "done"}
        /\ \E j \in DOMAIN tasks[t].monitors : j > tasks[t].i /\ tasks[t].monitors[j].id = id}

\* await db.run('UPDATE monitors SET name = ?, notifications_enabled = ? WHERE id = ?')
PutUpdate(r) ==
    /\ requests[r].kind = "put" /\ requests[r].pc = "update"
    /\ \/ /\ UpdateRow(requests[r].id, "notifications_enabled", requests[r].enabled)
          /\ requests' = [requests EXCEPT ![r] =
                              [@ EXCEPT !.pc = "done", !.answer = 200, !.ahead = Ahead(requests[r].id)]]
          /\ UNCHANGED storeErrors
       \/ /\ StoreFails
          /\ Answer(r, 500)
          /\ UNCHANGED monitors
    /\ UNCHANGED <<sched, history, notificationLog, sent, observed, tasks, now,
                   env, checkIntervalMs, delayOf, swept, call>>

DeleteSelect(r) == requests[r].kind = "delete" /\ Select(r, "log")

\* await db.run('DELETE FROM notification_log WHERE monitor_id = ?')
DeleteLog(r) ==
    /\ requests[r].kind = "delete" /\ requests[r].pc = "log"
    /\ \/ /\ notificationLog' = [notificationLog EXCEPT ![requests[r].id] = <<>>]
          /\ Goto(r, "history")
          /\ UNCHANGED storeErrors
       \/ /\ StoreFails
          /\ Answer(r, 500)
          /\ UNCHANGED notificationLog
    /\ UNCHANGED <<sched, monitors, history, sent, observed, tasks, now,
                   env, checkIntervalMs, delayOf, swept, call>>

\* await db.run('DELETE FROM monitor_status_history WHERE monitor_id = ?')
DeleteHistory(r) ==
    /\ requests[r].kind = "delete" /\ requests[r].pc = "history"
    /\ \/ /\ history' = [history EXCEPT ![requests[r].id] = <<>>]
          /\ Goto(r, "row")
          /\ UNCHANGED storeErrors
       \/ /\ StoreFails
          /\ Answer(r, 500)
          /\ UNCHANGED history
    /\ UNCHANGED <<sched, monitors, notificationLog, sent, observed, tasks, now,
                   env, checkIntervalMs, delayOf, swept, call>>

\* await db.run('DELETE FROM monitors WHERE id = ?'), then the answer
DeleteRow(r) ==
    /\ requests[r].kind = "delete" /\ requests[r].pc = "row"
    /\ \/ /\ monitors' = [monitors EXCEPT ![requests[r].id] = IF @.exists THEN Gone ELSE @]
          /\ Answer(r, 200)
          /\ UNCHANGED storeErrors
       \/ /\ StoreFails
          /\ Answer(r, 500)
          /\ UNCHANGED monitors
    /\ UNCHANGED <<sched, history, notificationLog, sent, observed, tasks, now,
                   env, checkIntervalMs, delayOf, swept, call>>

\* The add-monitor route alone: requests arrive at any time, their handlers
\* interleave with one another and with the on-creation checks; the store
\* does not fail.
NextPost ==
    \/ \E url \in Urls, enabled \in BOOLEAN : Post(url, enabled)
    \/ \E r \in DOMAIN requests : PostExisting(r) /\ NoFault
    \/ \E r \in DOMAIN requests : PostInsert(r) /\ NoFault
    \/ \E r \in DOMAIN requests : PostRead(r) /\ NoFault
    \/ \E t \in DOMAIN tasks : Probe(t)
    \/ \E t \in DOMAIN tasks : updateMonitorStatus(t) /\ NoFault
    \/ \E t \in DOMAIN tasks : logStatusCheck(t) /\ NoFault

SpecPost == Init /\ [][NextPost]_vars

\* The serial environment with the update route: sweeps and on-creation
\* checks one at a time, update requests at any time.
NextPut ==
    \/ Quiet /\ startMonitoring
    \/ Quiet /\ TimerFire
    \/ \E id \in MonitorIds, enabled \in BOOLEAN : Quiet /\ CreateMonitor(id, enabled)
    \/ \E id \in MonitorIds, enabled \in BOOLEAN : Put(id, enabled)
    \/ \E r \in DOMAIN requests : PutSelect(r) /\ NoFault
    \/ \E r \in DOMAIN requests : PutUpdate(r) /\ NoFault
    \/ \E t \in DOMAIN tasks : Step(t) /\ NoFault

SpecPut == Init /\ [][NextPut]_vars

\* The serial environment with the delete route: sweeps and on-creation
\* checks one at a time, delete requests at any time.
NextDelete ==
    \/ Quiet /\ startMonitoring
    \/ Quiet /\ TimerFire
    \/ \E id \in MonitorIds, enabled \in BOOLEAN : Quiet /\ CreateMonitor(id, enabled)
    \/ \E id \in MonitorIds : Delete(id)
    \/ \E r \in DOMAIN requests : DeleteSelect(r) /\ NoFault
    \/ \E r \in DOMAIN requests : DeleteLog(r) /\ NoFault
    \/ \E r \in DOMAIN requests : DeleteHistory(r) /\ NoFault
    \/ \E r \in DOMAIN requests : DeleteRow(r) /\ NoFault
    \/ \E t \in DOMAIN tasks : Step(t) /\ NoFault

SpecDelete == Init /\ [][NextDelete]_vars

\* C22: no two rows of the monitors table have the same url (the rows are
\* those of one user).
C22_OneRowPerUrl ==
    \A i, j \in MonitorIds :
        (monitors[i].exists /\ monitors[j].exists /\ monitors[i].url = monitors[j].url) => i = j

\* C29: every history record and every log entry is that of an existing
\* monitor: none remains and none is created once the row is deleted.
C29_NoOrphanRecords ==
    \A id \in MonitorIds :
        (history[id] # <<>> \/ notificationLog[id] # <<>>) => monitors[id].exists

\* the update requests that have cleared the flag of a monitor, no other
\* update of that monitor having been made
Cleared ==
    {r \in DOMAIN requests :
        /\ requests[r].kind = "put" /\ requests[r].answer = 200 /\ ~requests[r].enabled
        /\ \A q \in DOMAIN requests \ {r} :
               ~(requests[q].kind = "put" /\ requests[q].id = requests[r].id
                 /\ requests[q].answer = 200)}

\* C28: a sweep that had loaded a monitor and not yet come to it when the
\* update endpoint cleared its flag calls no notifier and writes no log entry
\* in its check of that monitor.
C28_ClearedBeforeCheck ==
    \A r \in Cleared : \A t \in requests[r].ahead :
        (tasks[t].pc # "done" /\ Cur(t).id = requests[r].id) =>
            /\ tasks[t].calls = <<>>
            /\ tasks[t].logged = 0

\* The serial environment under fairness: every await of a sweep or check
\* completes (the probe returns within its timeout, the store and the
\* notifier answer), and the repeating timer, while armed, fires again once
\* the sweep before it has ended.
SpecLive ==
    /\ Init /\ [][NextSerial]_vars
    /\ \A t \in 1..MaxTasks : WF_vars(Step(t) /\ NoFault)
    /\ WF_vars(Quiet /\ TimerFire)

\* the records a monitor has: one of its on-creation check and one of each
\* sweep that loaded it and has checked it
CheckedOnce(t, j) ==
    LET id == tasks[t].monitors[j].id
    IN  Len(history[id]) =
            swept[id] + IF j < tasks[t].i \/ (j = tasks[t].i /\ tasks[t].pc = "sleep") THEN 1 ELSE 0

\* C30: every sweep that has begun ends, and it ends after the last monitor of
\* its loaded list, each monitor of the list having one record of that sweep
\* and no more; and while the scheduler runs, every monitor in the store gets
\* a further record (as long as the bound on the sweeps of the model leaves
\* room for one).
C30_SweepsEndAndRecur ==
    /\ \A t \in 1..MaxTasks : (t \in Sweeping) ~> (t \in Sweeps \ Sweeping)
    /\ [][\A t \in Sweeping :
             tasks'[t].pc = "done" =>
                 /\ tasks'[t].err = "none"
                 /\ \/ tasks[t].pc = "sleep" /\ tasks[t].i = Len(tasks[t].monitors)
                    \/ tasks[t].pc = "all" /\ AllMonitors = <<>>]_vars
    /\ [](\A t \in Sweeping \cap Holding :
             /\ \A j, k \in DOMAIN tasks[t].monitors :
                    tasks[t].monitors[j].id = tasks[t].monitors[k].id => j = k
             /\ \A j \in DOMAIN tasks[t].monitors : CheckedOnce(t, j))
    /\ [](Quiet => \A m \in MonitorIds : monitors[m].exists => Len(history[m]) = swept[m] + 1)
    /\ \A m \in MonitorIds : \A n \in 0..MaxTasks :
           (isRunning /\ monitors[m].exists /\ Len(history[m]) = n)
              ~> (Len(history[m]) > n \/ ~isRunning \/ Len(tasks) = MaxTasks)

\* the scheduler runs and two sweeps have ended: the monitor has the record
\* of its on-creation check and one record of each sweep
C30_Witness ==
    /\ isRunning /\ Quiet
    /\ Cardinality(Sweeps) = 2
    /\ \E m \in MonitorIds :
          monitors[m].exists /\ swept[m] = 2 /\ Len(history[m]) = 3

====
